---- MODULE Spec2Model ----
(***************************************************************************)
(* zygen: hierarchy reconstruction and resource resolution.                *)
(*                                                                         *)
(* A string is a sequence of symbols.  The symbols ".", "/", ":", "{" and  *)
(* "}" are the characters the code tests for; every other symbol stands    *)
(* for a run of letters ("clusters", "z", ...).  A string is spelled in    *)
(* one way only: "zclusters" is <<"z", "clusters">> and "zones" is         *)
(* <<"z", "ones">>.  For the strings that meet in this model, one is a     *)
(* suffix, prefix or substring of the other as characters exactly when it  *)
(* is as sequences of symbols, so ends_with, starts_with, contains and     *)
(* split below compute what the code's string operations compute.          *)
(*                                                                         *)
(* Option<T> is a sequence of length 0 (None) or 1 (Some(x)).              *)
(* A HashMap of the discovery document is a sequence in the order its      *)
(* iterator yields the entries; a reference into the tree is the position  *)
(* (sequence of child indices) of the node.                                *)
(***************************************************************************)
EXTENDS Integers, Sequences, FiniteSets, TLC

\* ---------------------------------------------------------------- bounds
MaxTop == 3

MaxAttempts == 10

MaxRuns == 2

MaxRevisions == 3

MaxSegments == 2

\* ------------------------------------------------- Option and String
None == <<>>

Some(x) == <<x>>

ends_with(s, t) ==
  /\ Len(t) <= Len(s)
  /\ SubSeq(s, Len(s) - Len(t) + 1, Len(s)) = t

starts_with(s, t) ==
  /\ Len(t) <= Len(s)
  /\ SubSeq(s, 1, Len(t)) = t

contains(s, t) ==
  \E i \in 1..(Len(s) - Len(t) + 1) : SubSeq(s, i, i + Len(t) - 1) = t

RECURSIVE split(_, _)
split(s, c) ==
  IF \A i \in 1..Len(s) : s[i] # c
  THEN <<s>>
  ELSE LET i == CHOOSE k \in 1..Len(s) :
                  s[k] = c /\ \A j \in 1..(k - 1) : s[j] # c
       IN <<SubSeq(s, 1, i - 1)>> \o split(SubSeq(s, i + 1, Len(s)), c)

RECURSIVE join(_, _)
join(segs, c) ==
  IF segs = <<>> THEN <<>>
  ELSE IF Len(segs) = 1 THEN segs[1]
  ELSE segs[1] \o <<c>> \o join(Tail(segs), c)

\* format!("{}.{}", a, b)
dot(a, b) == a \o <<".">> \o b

pop(v) == IF v = <<>> THEN v ELSE SubSeq(v, 1, Len(v) - 1)

RECURSIVE retain(_, _)
\* Vec::retain / Iterator::filter with the predicate "element is not in drop"
retain(v, drop) ==
  IF v = <<>> THEN <<>>
  ELSE (IF v[1] \in drop THEN <<>> ELSE <<v[1]>>) \o retain(Tail(v), drop)

\* ------------------------------------------------------ Normalizer
\* update.rs convert_method: the id is copied, original_id starts as None,
\* flat_path is the document's flatPath, or its path when flatPath is absent.
convert_method(method_name, method) ==
  [id          |-> method.id,
   original_id |-> None,
   name        |-> method_name,
   flat_path   |-> IF method.flat_path # None THEN method.flat_path[1]
                   ELSE method.path]

RECURSIVE convert_resource_by_name(_, _, _, _)
\* convert_resource that always builds the path from the parent path, or the
\* service name, and the resource name
convert_resource_by_name(service_name, resource_name, resource, parent_path) ==
  LET methods == [i \in DOMAIN resource.methods |->
                    convert_method(resource.methods[i].name, resource.methods[i])]
      path == IF parent_path # None
              THEN Some(dot(parent_path[1], resource_name))
              ELSE Some(dot(service_name, resource_name))
      sub_resources == [i \in DOMAIN resource.resources |->
                          convert_resource_by_name(service_name,
                                           resource.resources[i].name,
                                           resource.resources[i], path)]
  IN [name        |-> resource_name,
      parent_path |-> parent_path,
      path        |-> path,
      methods     |-> methods,
      resources   |-> Some(sub_resources)]

RECURSIVE convert_resource_pass_parent(_, _, _, _)
\* convert_resource that hands its own parent_path, not its path, to the
\* sub-resources
convert_resource_pass_parent(service_name, resource_name, resource, parent_path) ==
  LET methods == [i \in DOMAIN resource.methods |->
                    convert_method(resource.methods[i].name, resource.methods[i])]
      path == IF methods # <<>>
              THEN Some(join(pop(split(methods[1].id, ".")), "."))
              ELSE IF parent_path # None
                   THEN Some(dot(parent_path[1], resource_name))
                   ELSE Some(dot(service_name, resource_name))
      sub_resources == [i \in DOMAIN resource.resources |->
                          convert_resource_pass_parent(service_name,
                                           resource.resources[i].name,
                                           resource.resources[i], parent_path)]
  IN [name        |-> resource_name,
      parent_path |-> parent_path,
      path        |-> path,
      methods     |-> methods,
      resources   |-> Some(sub_resources)]

RECURSIVE convert_resource(_, _, _, _)
\* update.rs convert_resource
convert_resource(service_name, resource_name, resource, parent_path) ==
  LET methods == [i \in DOMAIN resource.methods |->
                    convert_method(resource.methods[i].name, resource.methods[i])]
      path == IF methods # <<>>
              THEN Some(join(pop(split(methods[1].id, ".")), "."))
              ELSE IF parent_path # None
                   THEN Some(dot(parent_path[1], resource_name))
                   ELSE Some(dot(service_name, resource_name))
      sub_resources == [i \in DOMAIN resource.resources |->
                          convert_resource(service_name,
                                           resource.resources[i].name,
                                           resource.resources[i], path)]
  IN [name        |-> resource_name,
      parent_path |-> parent_path,
      path        |-> path,
      methods     |-> methods,
      resources   |-> Some(sub_resources)]

\* ------------------------------------------- Path segment utilities
\* a variant that prepends `projects` and leaves the abbreviations
transform_storage_parents_no_abbreviations(resource_name, segments) ==
  IF resource_name = <<"buckets">> THEN << <<"projects">> >>
  ELSE IF resource_name \in {<<"objects">>, <<"folders">>, <<"managedFolders">>}
       THEN << <<"projects">>, <<"buckets">> >>
  ELSE IF resource_name = <<"projects">> THEN segments
  ELSE << <<"projects">> >> \o segments

\* update_flavors.rs transform_storage_parents
transform_storage_parents(resource_name, segments) ==
  IF resource_name = <<"buckets">> THEN << <<"projects">> >>
  ELSE IF resource_name \in {<<"objects">>, <<"folders">>, <<"managedFolders">>}
       THEN << <<"projects">>, <<"buckets">> >>
  ELSE IF resource_name = <<"projects">> THEN segments
  ELSE LET chained == << <<"projects">> >> \o segments
       IN [i \in DOMAIN chained |->
             IF chained[i] = <<"b">> THEN <<"buckets">>
             ELSE IF chained[i] = <<"o">> THEN <<"objects">>
             ELSE chained[i]]

\* update_flavors.rs transform_compute_parents
transform_compute_parents(resource_name, segments) ==
  IF resource_name = <<"globalOrganizationOperations">> THEN <<>>
  ELSE IF resource_name \in {<<"globalAddresses">>, <<"globalNetworkEndpointGroups">>,
                             <<"globalOperations">>, <<"globalForwardingRules">>,
                             <<"networkFirewallPolicies">>}
       THEN << <<"projects">> >>
  ELSE IF resource_name = <<"instanceGroupManagerResizeRequests">>
       THEN << <<"projects">>, <<"z", "ones">>, <<"instanceGroupManagers">> >>
  ELSE IF resource_name = <<"z", "one", "Operations">>
       THEN << <<"projects">>, <<"z", "ones">> >>
  ELSE IF starts_with(resource_name, <<"region">>) /\ resource_name # <<"region", "s">>
       THEN << <<"projects">>, <<"region", "s">> >>
  ELSE retain(segments, {<<"global">>, <<"locations">>})

\* update_flavors.rs transform_sqladmin_parents
transform_sqladmin_parents(segments) == retain(segments, {<<"sql">>})

\* update.rs is_valid_flat_path
is_valid_flat_path(service_name, flat_path) ==
  ~ (\/ contains(flat_path, <<":">>)
     \/ (service_name = <<"compute">>
         /\ contains(flat_path, <<"/", "aggregated", "/">>)))

RECURSIVE remove_placeholders(_)
\* update.rs:484, the filter that keeps a segment only when it neither
\* starts with '{' nor ends with '}'
remove_placeholders(v) ==
  IF v = <<>> THEN <<>>
  ELSE (IF ~ starts_with(v[1], <<"{">>) /\ ~ ends_with(v[1], <<"}">>)
        THEN <<v[1]>> ELSE <<>>) \o remove_placeholders(Tail(v))

\* path_segments without the removal of the version segment
path_segments_keep_version(flat_path, version) ==
  pop(remove_placeholders(split(flat_path, "/")))

\* path_segments that keeps the last segment
path_segments_no_pop(flat_path, version) ==
  retain(remove_placeholders(split(flat_path, "/")), {version})

\* update.rs:481-494, the two map closures applied to one flat path
path_segments(flat_path, version) ==
  retain(pop(remove_placeholders(split(flat_path, "/"))), {version})

\* not_self_reference that accepts every segment list
accept_any_segments(segments, resource_name) == TRUE

\* update.rs:495-500, the predicate of find
not_self_reference(segments, resource_name) ==
  segments = <<>> \/ segments[Len(segments)] # resource_name

\* update.rs:503-509, the dispatch to the per-service override
apply_flavor(service_name, resource_name, segments) ==
  IF service_name = <<"storage">> THEN transform_storage_parents(resource_name, segments)
  ELSE IF service_name = <<"compute">> THEN transform_compute_parents(resource_name, segments)
  ELSE IF service_name = <<"sqladmin">> THEN transform_sqladmin_parents(segments)
  ELSE segments

\* update.rs build_parent_resources.  The distinct valid flat paths are held
\* in a HashSet, whose iteration order is not determined by its contents, so
\* `find` may meet any of the accepted segment lists first: the operator
\* yields the SET of results the call can return.
build_parent_resources(service_name, version, resource_name, methods) ==
  LET flat_paths == {methods[i].flat_path : i \in
                       {j \in DOMAIN methods :
                          is_valid_flat_path(service_name, methods[j].flat_path)}}
      accepted == {sg \in {path_segments(fp, version) : fp \in flat_paths} :
                     not_self_reference(sg, resource_name)}
      firsts == IF accepted = {} THEN {<<>>} ELSE accepted
  IN {apply_flavor(service_name, resource_name, sg) : sg \in firsts}

\* --------------------------------------------------- Hierarchy Rebuilder
\* rewrite_method with the two assignments in the other order
rewrite_method_id_first(method, resource_path) ==
  [method EXCEPT !.original_id = Some(dot(resource_path, method.name)),
                 !.id = dot(resource_path, method.name)]

\* update.rs:357-360, the rewrite of one method
rewrite_method(method, resource_path) ==
  [method EXCEPT !.original_id = Some(method.id),
                 !.id = dot(resource_path, method.name)]

\* update.rs:340-347
new_parent_path(service_name, inherited_parent_path, parent_resource_names) ==
  IF inherited_parent_path # None THEN inherited_parent_path
  ELSE IF parent_resource_names # <<>>
       THEN Some(join(<<service_name>> \o parent_resource_names, "."))
       ELSE None

\* a variant that forms every path as if the resource were top-level
new_resource_path_top_level(service_name, parent_path, name) == dot(service_name, name)

\* update.rs:350-353
new_resource_path(service_name, parent_path, name) ==
  IF parent_path = None THEN dot(service_name, name)
  ELSE dot(parent_path[1], name)

\* all sequences whose i-th element is drawn from sets[i]
RECURSIVE SeqProduct(_)
SeqProduct(sets) ==
  IF sets = <<>> THEN {<<>>}
  ELSE {<<h>> \o t : h \in sets[1], t \in SeqProduct(Tail(sets))}

RECURSIVE update_recursive(_, _, _, _)
\* update.rs:323-375, `recursive` of update_resource_paths: the set of
\* resources the call can leave behind (one per choice of build_parent_resources)
update_recursive(resource, service_name, version, inherited_parent_path) ==
  UNION {
    LET parent_path == new_parent_path(service_name, inherited_parent_path, names)
        resource_path == new_resource_path(service_name, parent_path, resource.name)
        methods == [i \in DOMAIN resource.methods |->
                      rewrite_method(resource.methods[i], resource_path)]
        subs == IF resource.resources = None THEN {None}
                ELSE {Some(v) : v \in SeqProduct(
                        [i \in DOMAIN resource.resources[1] |->
                           update_recursive(resource.resources[1][i], service_name,
                                            version, Some(resource_path))])}
    IN {[name        |-> resource.name,
         parent_path |-> parent_path,
         path        |-> Some(resource_path),
         methods     |-> methods,
         resources   |-> s] : s \in subs}
    : names \in build_parent_resources(service_name, version,
                                       resource.name, resource.methods)}

\* update.rs update_resource_paths: the set of forests the call can produce
update_resource_paths(api_id, resources) ==
  LET parts == split(api_id, ":")
      service_name == parts[1]
      version == join(Tail(parts), ":")
  IN SeqProduct([i \in DOMAIN resources |->
                   update_recursive(resources[i], service_name, version, None)])

\* index of the first element of v whose path is p, 0 when there is none
first_with_path(v, p) ==
  IF \E j \in DOMAIN v : v[j].path = p
  THEN CHOOSE j \in DOMAIN v : v[j].path = p /\ \A k \in 1..(j - 1) : v[k].path # p
  ELSE 0

\* graft that replaces the methods of the existing child instead of extending them
graft_replace_methods(resource, child_resource) ==
  LET parent_resources_vec == IF resource.resources = None THEN <<>>
                              ELSE resource.resources[1]
      existing == first_with_path(parent_resources_vec, child_resource.path)
  IN [resource EXCEPT !.resources =
        Some(IF existing # 0
             THEN [parent_resources_vec EXCEPT ![existing].methods =
                     child_resource.methods]
             ELSE Append(parent_resources_vec, child_resource))]

\* a variant that, on a child of the same path, extends its methods and
\* pushes the grafted resource as well
graft_merge_and_push(resource, child_resource) ==
  LET parent_resources_vec == IF resource.resources = None THEN <<>>
                              ELSE resource.resources[1]
      existing == first_with_path(parent_resources_vec, child_resource.path)
  IN [resource EXCEPT !.resources =
        Some(IF existing # 0
             THEN Append([parent_resources_vec EXCEPT ![existing].methods =
                            @ \o child_resource.methods], child_resource)
             ELSE Append(parent_resources_vec, child_resource))]

\* update.rs:400-413, the graft under the node found: merge the methods into
\* an existing child of the same path, or push the child
graft(resource, child_resource) ==
  LET parent_resources_vec == IF resource.resources = None THEN <<>>
                              ELSE resource.resources[1]
      existing == first_with_path(parent_resources_vec, child_resource.path)
  IN [resource EXCEPT !.resources =
        Some(IF existing # 0
             THEN [parent_resources_vec EXCEPT ![existing].methods =
                     @ \o child_resource.methods]
             ELSE Append(parent_resources_vec, child_resource))]

\* a variant that never searches below a node
dive_never(resource, child_resource) == FALSE

\* update.rs:419-426, the condition for searching below a node
dive(resource, child_resource) ==
  /\ resource.resources # None
  /\ resource.path # None
  /\ child_resource.parent_path # None
  /\ starts_with(child_resource.parent_path[1], resource.path[1])

RECURSIVE insert_from(_, _, _)
RECURSIVE insert_child_resource(_, _)
\* update.rs:397-432, the for loop of insert_child_resource from index i on
insert_from(resources, child_resource, i) ==
  IF i > Len(resources) THEN [ok |-> FALSE, resources |-> resources]
  ELSE IF resources[i].path = child_resource.parent_path
  THEN [ok |-> TRUE,
        resources |-> [resources EXCEPT ![i] = graft(@, child_resource)]]
  ELSE IF dive(resources[i], child_resource)
  THEN LET sub == insert_child_resource(resources[i].resources[1], child_resource)
       IN IF sub.ok
          THEN [ok |-> TRUE,
                resources |-> [resources EXCEPT ![i].resources = Some(sub.resources)]]
          ELSE insert_from(resources, child_resource, i + 1)
  ELSE insert_from(resources, child_resource, i + 1)

\* update.rs insert_child_resource: the returned flag and the forest left behind
insert_child_resource(resources, child_resource) ==
  insert_from(resources, child_resource, 1)

RECURSIVE select_seq(_, _)
\* the elements of v, in order, whose parent_path is (keep) or is not Some
select_seq(v, keep) ==
  IF v = <<>> THEN <<>>
  ELSE (IF (v[1].parent_path # None) = keep THEN <<v[1]>> ELSE <<>>)
       \o select_seq(Tail(v), keep)

\* ----------------------------------------------------- Resource Resolver
RECURSIVE node_at(_, _)
\* the resource a reference (position) designates
node_at(resources, pos) ==
  IF Len(pos) = 1 THEN resources[pos[1]]
  ELSE node_at(resources[pos[1]].resources[1], Tail(pos))

\* core.rs:288-292, the test that collects a resource
path_matches(resource, resource_path) ==
  resource.path # None /\ ends_with(resource.path[1], resource_path)

RECURSIVE collect_top_level(_, _, _, _)
\* collect_from without the descent into sub-resources
collect_top_level(resource_path, resources, prefix, i) ==
  IF i > Len(resources) THEN <<>>
  ELSE (IF path_matches(resources[i], resource_path) THEN <<prefix \o <<i>> >> ELSE <<>>)
       \o collect_top_level(resource_path, resources, prefix, i + 1)

RECURSIVE collect_from(_, _, _, _)
\* core.rs:282-298, `recursive` of find_resource: the references pushed onto
\* `found` by the loop over resources from index i on; prefix is the position
\* of the node that owns `resources`
collect_from(resource_path, resources, prefix, i) ==
  IF i > Len(resources) THEN <<>>
  ELSE (IF path_matches(resources[i], resource_path) THEN <<prefix \o <<i>> >> ELSE <<>>)
       \o (IF resources[i].resources # None
           THEN collect_from(resource_path, resources[i].resources[1], prefix \o <<i>>, 1)
           ELSE <<>>)
       \o collect_from(resource_path, resources, prefix, i + 1)

\* index of the first candidate whose path contains pat, 0 when there is none
find_containing(resources, found, pat) ==
  IF \E j \in DOMAIN found : contains(node_at(resources, found[j]).path[1], pat)
  THEN CHOOSE j \in DOMAIN found :
         /\ contains(node_at(resources, found[j]).path[1], pat)
         /\ \A k \in 1..(j - 1) : ~ contains(node_at(resources, found[k]).path[1], pat)
  ELSE 0

first(found) == IF found = <<>> THEN None ELSE Some(found[1])

last(found) == IF found = <<>> THEN None ELSE Some(found[Len(found)])

\* select_resource_container without the preference for the regional path
select_resource_container_first(resources, found) == first(found)

\* core_flavors.rs select_resource_container
select_resource_container(resources, found) ==
  LET j == find_containing(resources, found,
             <<"container", ".", "projects", ".", "locations", ".", "clusters">>)
  IN IF j # 0 THEN Some(found[j]) ELSE first(found)

\* core_flavors.rs select_resource_dataflow
\* a variant that prefers `locations` whatever path was asked for
select_resource_dataflow_locations_only(resources, resource_path, found) ==
  LET j == find_containing(resources, found, <<"locations">>)
  IN IF j # 0 THEN Some(found[j]) ELSE last(found)

select_resource_dataflow(resources, resource_path, found) ==
  IF \/ ends_with(resource_path, <<"templates">>)
     \/ ends_with(resource_path, <<"jobs">>)
     \/ ends_with(resource_path, <<"debug">>)
     \/ ends_with(resource_path, <<"messages">>)
     \/ ends_with(resource_path, <<"workItems">>)
  THEN LET j == find_containing(resources, found, <<"locations">>)
       IN IF j # 0 THEN Some(found[j]) ELSE last(found)
  ELSE LET j == find_containing(resources, found, <<"locations", ".", "snapshots">>)
       IN IF j # 0 THEN Some(found[j]) ELSE last(found)

\* select_resource_spanner without the fallback to the last candidate
select_resource_spanner_no_fallback(resources, found) ==
  LET j == find_containing(resources, found, <<"instances", ".", "operations">>)
  IN IF j # 0 THEN Some(found[j]) ELSE None

\* core_flavors.rs select_resource_spanner
select_resource_spanner(resources, found) ==
  LET j == find_containing(resources, found, <<"instances", ".", "operations">>)
  IN IF j # 0 THEN Some(found[j]) ELSE last(found)

\* select_resource whose default arm returns the first candidate
select_resource_default_first(api_id, resources, resource_path, found) ==
  IF Len(found) <= 1 THEN first(found)
  ELSE IF api_id = <<"container", ":", "v1">>
       THEN select_resource_container(resources, found)
  ELSE IF api_id = <<"dataflow", ":", "v1b3">>
       THEN select_resource_dataflow(resources, resource_path, found)
  ELSE IF api_id = <<"spanner", ":", "v1">>
       THEN select_resource_spanner(resources, found)
  ELSE first(found)

\* core.rs select_resource
select_resource(api_id, resources, resource_path, found) ==
  IF Len(found) <= 1 THEN first(found)
  ELSE IF api_id = <<"container", ":", "v1">>
       THEN select_resource_container(resources, found)
  ELSE IF api_id = <<"dataflow", ":", "v1b3">>
       THEN select_resource_dataflow(resources, resource_path, found)
  ELSE IF api_id = <<"spanner", ":", "v1">>
       THEN select_resource_spanner(resources, found)
  ELSE last(found)

\* find_resource without the early return on an empty `found`
find_resource_no_early_return(api_id, resources, resource_path) ==
  LET found == collect_from(resource_path, resources, <<>>, 1)
      selected == select_resource(api_id, resources, resource_path, found)
  IN IF selected = None
     THEN [kind |-> "SelectionFailed", path |-> resource_path]
     ELSE [kind |-> "Ok", ref |-> selected[1]]

\* core.rs find_resource: Ok(reference) or one of the two error messages
find_resource(api_id, resources, resource_path) ==
  LET found == collect_from(resource_path, resources, <<>>, 1)
  IN IF found = <<>>
     THEN [kind |-> "ResourceNotFound", path |-> resource_path, api |-> api_id]
     ELSE LET selected == select_resource(api_id, resources, resource_path, found)
          IN IF selected = None
             THEN [kind |-> "SelectionFailed", path |-> resource_path]
             ELSE [kind |-> "Ok", ref |-> selected[1]]

\* index of the first method of the resource whose name begins with
\* method_name, 0 when there is none
first_with_prefix(resource, method_name) ==
  IF \E j \in DOMAIN resource.methods : starts_with(resource.methods[j].name, method_name)
  THEN CHOOSE j \in DOMAIN resource.methods :
         /\ starts_with(resource.methods[j].name, method_name)
         /\ \A k \in 1..(j - 1) : ~ starts_with(resource.methods[k].name, method_name)
  ELSE 0

\* find_method that accepts a method whose name begins with method_name
find_method_prefix(resource, method_name) ==
  LET j == first_with_prefix(resource, method_name)
  IN IF j # 0 THEN [kind |-> "Ok", method |-> resource.methods[j]]
     ELSE IF resource.path = None THEN [kind |-> "Panic"]
     ELSE [kind |-> "MethodNotFound", method |-> method_name,
           resource |-> resource.path[1]]

\* core.rs:356-359, the index of the first method named method_name, 0 when
\* there is none
first_named(resource, method_name) ==
  IF \E j \in DOMAIN resource.methods : resource.methods[j].name = method_name
  THEN CHOOSE j \in DOMAIN resource.methods :
         /\ resource.methods[j].name = method_name
         /\ \A k \in 1..(j - 1) : resource.methods[k].name # method_name
  ELSE 0

\* core.rs find_method: Ok(method), or the error message with the method name
\* and the path of the resource; building the message panics on a resource
\* without a path
find_method(resource, method_name) ==
  LET j == first_named(resource, method_name)
  IN IF j # 0 THEN [kind |-> "Ok", method |-> resource.methods[j]]
     ELSE IF resource.path = None THEN [kind |-> "Panic"]
     ELSE [kind |-> "MethodNotFound", method |-> method_name,
           resource |-> resource.path[1]]

\* ------------------------------------------------- discovery documents
\* a sequence of one-symbol words joined by c: Dotted(<<"a", "b">>) is "a.b"
Joined(ws, c) == join([i \in DOMAIN ws |-> <<ws[i]>>], c)

Dotted(ws) == Joined(ws, ".")

\* a URL template from its segments
Url(segs) == join(segs, "/")

\* the placeholder {n}
Ph(n) == <<"{", n, "}">>

\* discovery.rs Method with a flatPath
RawMethod(name, id, flat) ==
  [name |-> name, id |-> id, path |-> flat, flat_path |-> Some(flat)]

\* discovery.rs Method without a flatPath (storage:v1)
RawMethodNoFlat(name, id, path) ==
  [name |-> name, id |-> id, path |-> path, flat_path |-> None]

\* discovery.rs Resource, with the key it has in the enclosing map
RawResource(name, methods, resources) ==
  [name |-> name, methods |-> methods, resources |-> resources]

Leaf(name) == RawResource(name, <<>>, <<>>)

Zones == <<"z", "ones">>

BqProjects == Leaf(<<"projects">>)

BqDatasets(v) ==
  RawResource(<<"datasets">>,
    <<RawMethod(<<"list">>, Dotted(<<"bigquery", "datasets", "list">>),
        Url(v \o << <<"projects">>, Ph("projectsId"), <<"datasets">> >>))>>, <<>>)

BqTables ==
  RawResource(<<"tables">>,
    <<RawMethod(<<"delete">>, Dotted(<<"bigquery", "tables", "delete">>),
        Url(<< <<"projects">>, Ph("projectsId"), <<"datasets">>, Ph("datasetsId"),
               <<"tables">>, Ph("tablesId") >>))>>, <<>>)

\* two methods whose templates give different ancestor chains
BqJobs ==
  RawResource(<<"jobs">>,
    <<RawMethod(<<"list">>, Dotted(<<"bigquery", "jobs", "list">>),
        Url(<< <<"projects">>, Ph("projectsId"), <<"jobs">> >>)),
      RawMethod(<<"get">>, Dotted(<<"bigquery", "jobs", "get">>),
        Url(<< <<"v2">>, <<"jobs">>, Ph("jobsId") >>))>>, <<>>)

\* the template of the methods of rowAccessPolicies, followed by more segments
RowAccessPoliciesUrl(more) ==
  Url(<< <<"projects">>, Ph("projectsId"), <<"datasets">>, Ph("datasetsId"),
         <<"tables">>, Ph("tablesId"), <<"rowAccessPolicies">> >> \o more)

\* one template that gives the ancestors, one with a ':' action and one
\* whose segments end with the name of the resource
BqRowAccessPolicies ==
  RawResource(<<"rowAccessPolicies">>,
    <<RawMethod(<<"get", "IamPolicy">>,
        <<"bigquery", ".", "rowAccessPolicies", ".", "get", "IamPolicy">>,
        RowAccessPoliciesUrl(<< Ph("rowAccessPoliciesId") \o <<":", "get", "IamPolicy">> >>)),
      RawMethod(<<"copy">>, Dotted(<<"bigquery", "rowAccessPolicies", "copy">>),
        RowAccessPoliciesUrl(<< Ph("rowAccessPoliciesId"), <<"copy">> >>)),
      RawMethod(<<"list">>, Dotted(<<"bigquery", "rowAccessPolicies", "list">>),
        RowAccessPoliciesUrl(<<>>))>>, <<>>)

\* its only template ends, once the last segment is dropped, with the name
\* of the resource
BqJobsCancel ==
  RawResource(<<"jobs">>,
    <<RawMethod(<<"cancel">>, Dotted(<<"bigquery", "jobs", "cancel">>),
        Url(<< <<"projects">>, Ph("projectsId"), <<"jobs">>, Ph("jobsId"),
               <<"cancel">> >>))>>, <<>>)

BigqueryLibrary ==
  {BqProjects, BqDatasets(<<>>), BqDatasets(<< <<"v2">> >>),
   BqDatasets(<< <<"v1">> >>), BqTables, BqJobs, BqJobsCancel, BqRowAccessPolicies}

SqlProjects ==
  RawResource(<<"projects">>, <<>>,
    <<RawResource(<<"instances">>,
        <<RawMethod(<<"performDiskShrink">>,
            Dotted(<<"sql", "projects", "instances", "performDiskShrink">>),
            Url(<< <<"v1">>, <<"projects">>, Ph("project"), <<"instances">>,
                   Ph("instance"), <<"performDiskShrink">> >>))>>, <<>>)>>)

SqlInstances ==
  RawResource(<<"instances">>,
    <<RawMethod(<<"get">>, Dotted(<<"sql", "instances", "get">>),
        Url(<< <<"v1">>, <<"projects">>, Ph("project"), <<"instances">>,
               Ph("instance") >>))>>, <<>>)

SqlDatabases ==
  RawResource(<<"databases">>,
    <<RawMethod(<<"list">>, Dotted(<<"sql", "databases", "list">>),
        Url(<< <<"sql">>, <<"v1">>, <<"projects">>, Ph("project"), <<"instances">>,
               Ph("instance"), <<"databases">> >>))>>, <<>>)

\* its only template carries a ':' action and is not used for inference
SqlOperations ==
  RawResource(<<"operations">>,
    <<RawMethod(<<"cancel">>, Dotted(<<"sql", "operations", "cancel">>),
        Url(<< <<"v1">>, <<"projects">>, Ph("project"), <<"operations">>,
               Ph("operation") \o <<":", "cancel">> >>))>>, <<>>)

\* `projects` whose nested `instances` declares a method `get`, the name of
\* the method of the top-level `instances`
SqlProjectsGet ==
  RawResource(<<"projects">>, <<>>,
    <<RawResource(<<"instances">>,
        <<RawMethod(<<"get">>, Dotted(<<"sql", "projects", "instances", "get">>),
            Url(<< <<"v1">>, <<"projects">>, Ph("project"), <<"instances">>,
                   Ph("instance") >>))>>, <<>>)>>)

\* a top-level `instances` that declares a sub-resource `databases`
SqlInstancesNested ==
  RawResource(<<"instances">>,
    <<RawMethod(<<"get">>, Dotted(<<"sql", "instances", "get">>),
        Url(<< <<"v1">>, <<"projects">>, Ph("project"), <<"instances">>,
               Ph("instance") >>))>>,
    <<RawResource(<<"databases">>,
        <<RawMethod(<<"list">>, Dotted(<<"sql", "instances", "databases", "list">>),
            Url(<< <<"v1">>, <<"projects">>, Ph("project"), <<"instances">>,
                   Ph("instance"), <<"databases">> >>))>>, <<>>)>>)

\* its template places it under a `databases` resource
SqlRoles ==
  RawResource(<<"roles">>,
    <<RawMethod(<<"list">>, Dotted(<<"sql", "roles", "list">>),
        Url(<< <<"v1">>, <<"projects">>, Ph("project"), <<"instances">>,
               Ph("instance"), <<"databases">>, Ph("database"), <<"roles">> >>))>>,
    <<>>)

SqladminLibrary ==
  {SqlProjects, SqlProjectsGet, SqlInstances, SqlInstancesNested, SqlDatabases,
   SqlOperations, SqlRoles}

StProjects == Leaf(<<"projects">>)

StBuckets ==
  RawResource(<<"buckets">>,
    <<RawMethodNoFlat(<<"get">>, Dotted(<<"storage", "buckets", "get">>),
        Url(<< <<"b">>, Ph("bucket") >>))>>, <<>>)

StObjects ==
  RawResource(<<"objects">>,
    <<RawMethodNoFlat(<<"get">>, Dotted(<<"storage", "objects", "get">>),
        Url(<< <<"b">>, Ph("bucket"), <<"o">>, Ph("object") >>))>>, <<>>)

StObjectAccessControls ==
  RawResource(<<"objectAccessControls">>,
    <<RawMethodNoFlat(<<"list">>, Dotted(<<"storage", "objectAccessControls", "list">>),
        Url(<< <<"b">>, Ph("bucket"), <<"o">>, Ph("object"), <<"acl">> >>))>>, <<>>)

\* its only template, channels/stop, ends with the name of the resource once
\* the last segment is dropped
StChannels ==
  RawResource(<<"channels">>,
    <<RawMethodNoFlat(<<"stop">>, Dotted(<<"storage", "channels", "stop">>),
        Url(<< <<"channels">>, <<"stop">> >>))>>, <<>>)

StorageLibrary ==
  {StProjects, StBuckets, StObjects, StObjectAccessControls, StChannels}

CoProjects ==
  RawResource(<<"projects">>,
    <<RawMethod(<<"get">>, Dotted(<<"compute", "projects", "get">>),
        Url(<< <<"projects">>, Ph("project") >>))>>, <<>>)

CoZones ==
  RawResource(Zones,
    <<RawMethod(<<"list">>, <<"compute", ".">> \o Zones \o <<".", "list">>,
        Url(<< <<"projects">>, Ph("project"), Zones >>))>>, <<>>)

CoInstances ==
  RawResource(<<"instances">>,
    <<RawMethod(<<"aggregatedList">>, Dotted(<<"compute", "instances", "aggregatedList">>),
        Url(<< <<"projects">>, Ph("project"), <<"aggregated">>, <<"instances">> >>)),
      RawMethod(<<"list">>, Dotted(<<"compute", "instances", "list">>),
        Url(<< <<"projects">>, Ph("project"), Zones, Ph("zone"), <<"instances">> >>))>>,
    <<>>)

CoRegionDisks ==
  RawResource(<<"region", "Disks">>,
    <<RawMethod(<<"list">>, <<"compute", ".", "region", "Disks", ".", "list">>,
        Url(<< <<"projects">>, Ph("project"), <<"region", "s">>, Ph("region"),
               <<"disks">> >>))>>, <<>>)

\* its only template has an `aggregated` segment
CoGlobalOperations ==
  RawResource(<<"globalOperations">>,
    <<RawMethod(<<"aggregatedList">>,
        Dotted(<<"compute", "globalOperations", "aggregatedList">>),
        Url(<< <<"projects">>, Ph("project"), <<"aggregated">>, <<"operations">> >>))>>,
    <<>>)

ComputeLibrary ==
  {CoProjects, CoZones, CoInstances, CoRegionDisks, CoGlobalOperations}

\* a resource with one `get` method, whose id is path + ".get"
WithGet(name, path, resources) ==
  RawResource(name,
    <<RawMethod(<<"get">>, dot(path, <<"get">>), Url(<< <<"v1">>, name >>))>>,
    resources)

CtLocations ==
  RawResource(<<"locations">>, <<>>,
    <<WithGet(<<"clusters">>, Dotted(<<"container", "projects", "locations", "clusters">>),
        <<>>),
      Leaf(<<"operations">>)>>)

CtZones ==
  RawResource(Zones, <<>>,
    <<WithGet(<<"clusters">>,
        <<"container", ".", "projects", ".">> \o Zones \o <<".", "clusters">>, <<>>),
      Leaf(<<"operations">>)>>)

CtProjectsLZ == RawResource(<<"projects">>, <<>>, <<CtLocations, CtZones>>)

CtProjectsZL == RawResource(<<"projects">>, <<>>, <<CtZones, CtLocations>>)

CtZclusters == Leaf(<<"z", "clusters">>)

ContainerLibrary == {CtProjectsLZ, CtProjectsZL, CtZclusters}

DfLocations ==
  RawResource(<<"locations">>, <<>>,
    <<Leaf(<<"templates">>),
      RawResource(<<"jobs">>, <<>>, <<Leaf(<<"debug">>), Leaf(<<"snapshots">>)>>),
      Leaf(<<"snapshots">>)>>)

DfProjects ==
  RawResource(<<"projects">>, <<>>,
    <<Leaf(<<"snapshots">>),
      RawResource(<<"jobs">>, <<>>, <<Leaf(<<"debug">>)>>),
      Leaf(<<"templates">>),
      DfLocations>>)

\* the regional branch in another iteration order: snapshots before jobs
DfLocationsSnapshotsFirst ==
  RawResource(<<"locations">>, <<>>,
    <<Leaf(<<"snapshots">>),
      RawResource(<<"jobs">>, <<>>, <<Leaf(<<"snapshots">>), Leaf(<<"debug">>)>>),
      Leaf(<<"templates">>)>>)

DfProjectsLocationsSecond ==
  RawResource(<<"projects">>, <<>>,
    <<Leaf(<<"snapshots">>),
      DfLocationsSnapshotsFirst,
      Leaf(<<"templates">>),
      RawResource(<<"jobs">>, <<>>, <<Leaf(<<"debug">>)>>)>>)

\* no regional branch: the strategy's preference is not met
DfProjectsNoLocations ==
  RawResource(<<"projects">>, <<>>,
    <<Leaf(<<"snapshots">>),
      RawResource(<<"jobs">>, <<>>, <<Leaf(<<"snapshots">>)>>),
      RawResource(<<"catalogs">>, <<>>, <<Leaf(<<"jobs">>)>>)>>)

DataflowLibrary ==
  {DfProjects, DfProjectsLocationsSecond, DfProjectsNoLocations, Leaf(<<"z", "jobs">>)}

SpProjects ==
  RawResource(<<"projects">>, <<>>,
    <<RawResource(<<"instanceConfigs">>, <<>>, <<Leaf(<<"operations">>)>>),
      RawResource(<<"instances">>, <<>>,
        <<RawResource(<<"databases">>, <<>>, <<Leaf(<<"operations">>)>>),
          Leaf(<<"operations">>),
          RawResource(<<"backups">>, <<>>, <<Leaf(<<"operations">>)>>)>>)>>)

\* no instances.operations: the strategy's preference is not met
SpProjectsNoInstances ==
  RawResource(<<"projects">>, <<>>,
    <<RawResource(<<"instanceConfigs">>, <<>>,
        <<Leaf(<<"operations">>),
          RawResource(<<"ssdCaches">>, <<>>, <<Leaf(<<"operations">>)>>)>>)>>)

SpannerLibrary == {SpProjects, SpProjectsNoInstances, Leaf(<<"scans">>)}

TaProjects ==
  RawResource(<<"projects">>, <<>>,
    <<RawResource(<<"locations">>, <<>>, <<Leaf(<<"clusters">>)>>),
      RawResource(Zones, <<>>, <<Leaf(<<"clusters">>)>>)>>)

\* declared at the top level, its method id names a nested path
TaClusters ==
  WithGet(<<"clusters">>, Dotted(<<"testapi", "projects", "locations", "clusters">>), <<>>)

TaZclusters == Leaf(<<"z", "clusters">>)

TaLocations ==
  RawResource(<<"locations">>, <<>>, <<Leaf(<<"clusters">>)>>)

\* two methods, the name of one a prefix of the name of the other
TaPolicies ==
  RawResource(<<"policies">>,
    <<RawMethod(<<"get", "IamPolicy">>,
        <<"testapi", ".", "policies", ".", "get", "IamPolicy">>,
        Url(<< <<"v1">>, <<"policies">>, Ph("policy") \o <<":", "get", "IamPolicy">> >>)),
      RawMethod(<<"get">>, Dotted(<<"testapi", "policies", "get">>),
        Url(<< <<"v1">>, <<"policies">>, Ph("policy") >>))>>, <<>>)

TestapiLibrary == {TaProjects, TaClusters, TaZclusters, TaLocations, TaPolicies}

\* discovery.rs ApiDescription: id, name and the library its resources come from
Apis ==
  {[id |-> <<"bigquery", ":", "v2">>,  name |-> <<"bigquery">>,  library |-> BigqueryLibrary],
   [id |-> <<"sqladmin", ":", "v1">>,  name |-> <<"sqladmin">>,  library |-> SqladminLibrary],
   [id |-> <<"storage", ":", "v1">>,   name |-> <<"storage">>,   library |-> StorageLibrary],
   [id |-> <<"compute", ":", "v1">>,   name |-> <<"compute">>,   library |-> ComputeLibrary],
   [id |-> <<"container", ":", "v1">>, name |-> <<"container">>, library |-> ContainerLibrary],
   [id |-> <<"dataflow", ":", "v1b3">>, name |-> <<"dataflow">>, library |-> DataflowLibrary],
   [id |-> <<"spanner", ":", "v1">>,   name |-> <<"spanner">>,   library |-> SpannerLibrary],
   [id |-> <<"testapi", ":", "v1">>,   name |-> <<"testapi">>,   library |-> TestapiLibrary]}

RECURSIVE Forests(_, _)
\* the sequences of at most n resources of the library with distinct names:
\* the entries of a map, in any iteration order
Forests(library, n) ==
  IF n = 0 THEN {<<>>}
  ELSE LET shorter == Forests(library, n - 1)
       IN shorter \cup
          UNION {{Append(f, r) : r \in {x \in library :
                                         \A i \in DOMAIN f : f[i].name # x.name}}
                 : f \in {g \in shorter : Len(g) = n - 1}}

\* update.rs:125-133, the services whose hierarchy is rebuilt
needs_rebuild(api_id) ==
  api_id \in {<<"bigquery", ":", "v2">>, <<"compute", ":", "v1">>,
              <<"sqladmin", ":", "v1">>, <<"sqladmin", ":", "v1beta4">>,
              <<"storage", ":", "v1">>}

\* ------------------------------------------------------ API directory
\* the keys of the top-level JSON object of the directory, in sorted order
SortedKeys == <<"items", "kind">>

\* a JSON value of the directory: the keys of its top-level object in the
\* order they are stored, and the revision of its list of items
Documents ==
  [keys : {<<"items", "kind">>, <<"kind", "items">>}, items : 1..MaxRevisions]

\* discovery.rs sort_json: the keys of the object in sorted order, the values
\* as they are (arrays are not sorted)
sort_json(value) == [value EXCEPT !.keys = SortedKeys]

\* discovery.rs ensure_discovered_apis.  file is the content of the cached
\* file, None when it does not exist; remote is what DISCOVERY_URL serves;
\* fetch_ok tells whether the request, the parse and the write succeed.  The
\* result says whether a request was sent, what the file holds afterwards
\* and what the call returns.
ensure_discovered_apis(replace, file, remote, fetch_ok) ==
  IF file = None /\ ~ replace
  THEN IF fetch_ok
       THEN [fetched |-> TRUE, file |-> Some(sort_json(remote)),
             result |-> [kind |-> "Ok", items |-> sort_json(remote).items]]
       ELSE [fetched |-> TRUE, file |-> file, result |-> [kind |-> "Err"]]
  ELSE IF file = None
       THEN [fetched |-> FALSE, file |-> file, result |-> [kind |-> "Err"]]
       ELSE [fetched |-> FALSE, file |-> file,
             result |-> [kind |-> "Ok", items |-> sort_json(file[1]).items]]

\* ---------------------------------------------------------------- state
VARIABLES
  description,        \* the ApiDescription read by extract_api
  resources,          \* api.resources, the forest
  children_to_insert, \* the worklist of rebuild_hierarchy
  pc,                 \* "extract", "update", "insert" or "ready"
  run,                \* how many times rebuild_hierarchy has been started
  normalized,         \* the forest as phase 1 of the current run received it
  updated,            \* the forest as phase 1 of the current run left it
  initial_size,       \* length of the worklist when the loop started
  attempts,           \* iterations of the reassembly loop so far
  last_insert,        \* the last call of insert_child_resource: arguments, result
  previous,           \* the forest the previous run returned
  resource_path,      \* the path given to the last find_resource
  result,             \* what the last find_resource returned
  method_call,        \* the last find_method: resource, method name, result
  discovered_apis_file, \* content of DISCOVERED_APIS_FILE, None when absent
  directory,          \* the document DISCOVERY_URL serves
  ensured,            \* the last ensure_discovered_apis: arguments, result
  override_call       \* a call of the service override: arguments, result

vars == <<description, resources, children_to_insert, pc, run, normalized, updated,
          initial_size, attempts, last_insert, previous, resource_path, result,
          method_call, discovered_apis_file, directory, ensured, override_call>>

\* the variables the pipeline of extract_api leaves alone
dvars == <<discovered_apis_file, directory, ensured, override_call>>

RECURSIVE Positions(_)
\* the positions of all nodes of a forest
Positions(forest) ==
  {<<i>> : i \in DOMAIN forest} \cup
  UNION {{<<i>> \o p : p \in (IF forest[i].resources = None THEN {}
                              ELSE Positions(forest[i].resources[1]))}
         : i \in DOMAIN forest}

\* the paths a user may type: every suffix, starting at a symbol other than
\* '.', of a canonical path of the tree, and a name that occurs nowhere
Queries(forest) ==
  {<<"nonexistent">>} \cup
  UNION {LET n == node_at(forest, p)
         IN IF n.path = None THEN {}
            ELSE {SubSeq(n.path[1], k, Len(n.path[1])) :
                    k \in {j \in 1..Len(n.path[1]) : n.path[1][j] # "."}}
         : p \in Positions(forest)}

Init ==
  /\ \E api \in Apis : \E forest \in Forests(api.library, MaxTop) :
       description = [id |-> api.id, name |-> api.name, resources |-> forest]
  /\ resources = <<>>
  /\ children_to_insert = <<>>
  /\ pc = "extract"
  /\ run = 0
  /\ normalized = <<>>
  /\ updated = <<>>
  /\ initial_size = 0
  /\ attempts = 0
  /\ last_insert = None
  /\ previous = None
  /\ resource_path = None
  /\ result = None
  /\ method_call = None
  /\ discovered_apis_file = None
  /\ directory = [keys |-> SortedKeys, items |-> 1]
  /\ ensured = None
  /\ override_call = None

\* update.rs extract_api, up to the call of rebuild_hierarchy
ExtractApi ==
  /\ pc = "extract"
  /\ resources' = [i \in DOMAIN description.resources |->
                     convert_resource(description.name,
                                      description.resources[i].name,
                                      description.resources[i], None)]
  /\ pc' = IF needs_rebuild(description.id) THEN "update" ELSE "ready"
  /\ UNCHANGED <<description, children_to_insert, run, normalized, updated,
                 initial_size, attempts, last_insert, previous, resource_path, result,
                 method_call>>
  /\ UNCHANGED dvars

\* update.rs:272-302, rebuild_hierarchy up to the reassembly loop: phase 1,
\* then the split into the worklist and the top-level forest
UpdateResourcePaths ==
  /\ pc = "update"
  /\ \E api_resources \in update_resource_paths(description.id, resources) :
       /\ updated' = api_resources
       /\ children_to_insert' = select_seq(api_resources, TRUE)
       /\ resources' = select_seq(api_resources, FALSE)
       /\ initial_size' = Len(select_seq(api_resources, TRUE))
  /\ normalized' = resources
  /\ run' = run + 1
  /\ attempts' = 0
  /\ last_insert' = None
  /\ pc' = "insert"
  /\ UNCHANGED <<description, previous, resource_path, result, method_call>>
  /\ UNCHANGED dvars

\* update.rs:306-313, one iteration of the reassembly loop
\* a variant that puts the failed child back where it was popped
requeue_back(children, child) == Append(children, child)

\* children_to_insert.insert(0, child_res)
requeue(children, child) == <<child>> \o children

InsertChild ==
  /\ pc = "insert"
  /\ children_to_insert # <<>>
  /\ attempts < MaxAttempts
  /\ LET child_res == children_to_insert[Len(children_to_insert)]
         rest == pop(children_to_insert)
         r == insert_child_resource(resources, child_res)
     IN /\ resources' = r.resources
        /\ children_to_insert' = IF r.ok THEN rest ELSE requeue(rest, child_res)
        /\ last_insert' = Some([child |-> child_res, forest |-> resources, ok |-> r.ok])
  /\ attempts' = attempts + 1
  /\ UNCHANGED <<description, pc, run, normalized, updated, initial_size, previous,
                 resource_path, result, method_call>>
  /\ UNCHANGED dvars

\* update.rs:306 and 314-316, the loop ends on an empty worklist and
\* rebuild_hierarchy returns
ReturnApi ==
  /\ pc = "insert"
  /\ children_to_insert = <<>>
  /\ pc' = "ready"
  /\ UNCHANGED <<description, resources, children_to_insert, run, normalized, updated,
                 initial_size, attempts, last_insert, previous, resource_path, result,
                 method_call>>
  /\ UNCHANGED dvars

\* rebuild_hierarchy applied to the tree a previous rebuild_hierarchy returned
RebuildAgain ==
  /\ pc = "ready"
  /\ needs_rebuild(description.id)
  /\ run < MaxRuns
  /\ previous' = Some(resources)
  /\ resource_path' = None
  /\ result' = None
  /\ method_call' = None
  /\ pc' = "update"
  /\ UNCHANGED <<description, resources, children_to_insert, run, normalized, updated,
                 initial_size, attempts, last_insert>>
  /\ UNCHANGED dvars

\* core.rs find_resource on the finished tree
FindResource ==
  /\ pc = "ready"
  /\ \E q \in Queries(resources) :
       /\ resource_path' = Some(q)
       /\ result' = Some(find_resource(description.id, resources, q))
  /\ method_call' = None
  /\ UNCHANGED <<description, resources, children_to_insert, pc, run, normalized,
                 updated, initial_size, attempts, last_insert, previous>>
  /\ UNCHANGED dvars

\* the method names a user may type for a resource: every run of symbols of
\* the name of one of its methods, and a name that occurs nowhere
MethodQueries(resource) ==
  {<<"nonexistent">>} \cup
  UNION {{SubSeq(resource.methods[k].name, i, j) :
            i \in 1..Len(resource.methods[k].name),
            j \in 1..Len(resource.methods[k].name)} \ {<<>>}
         : k \in DOMAIN resource.methods}

\* exec.rs:68-71 and desc.rs:40-41, find_method on the resource that
\* find_resource returned
FindMethod ==
  /\ pc = "ready"
  /\ result # None
  /\ result[1].kind = "Ok"
  /\ \E n \in MethodQueries(node_at(resources, result[1].ref)) :
       method_call' = Some([resource    |-> result[1].ref,
                            method_name |-> n,
                            result      |-> find_method(node_at(resources, result[1].ref), n)])
  /\ UNCHANGED <<description, resources, children_to_insert, pc, run, normalized,
                 updated, initial_size, attempts, last_insert, previous,
                 resource_path, result>>
  /\ UNCHANGED dvars

Next ==
  \/ ExtractApi
  \/ UpdateResourcePaths
  \/ InsertChild
  \/ ReturnApi
  \/ RebuildAgain
  \/ FindResource
  \/ FindMethod

Spec == Init /\ [][Next]_vars

\* ----------------------------------------------- the cached API directory
\* the state before `update` or a command that loads a service reads any
\* description: the cached file is absent or holds a document an earlier
\* call wrote
InitDiscovery ==
  /\ description = [id |-> <<>>, name |-> <<>>, resources |-> <<>>]
  /\ resources = <<>>
  /\ children_to_insert = <<>>
  /\ pc = "discover"
  /\ run = 0
  /\ normalized = <<>>
  /\ updated = <<>>
  /\ initial_size = 0
  /\ attempts = 0
  /\ last_insert = None
  /\ previous = None
  /\ resource_path = None
  /\ result = None
  /\ method_call = None
  /\ discovered_apis_file \in {None} \cup {Some(sort_json(d)) : d \in Documents}
  /\ directory \in Documents
  /\ ensured = None
  /\ override_call = None

\* discovery.rs ensure_discovered_apis, called with replace = true by
\* download (update.rs:63) and with replace = false by load_api_file
\* (core.rs:217)
EnsureDiscoveredApis ==
  /\ pc = "discover"
  /\ \E replace \in BOOLEAN, fetch_ok \in BOOLEAN :
       LET r == ensure_discovered_apis(replace, discovered_apis_file, directory, fetch_ok)
       IN /\ discovered_apis_file' = r.file
          /\ ensured' = Some([replace |-> replace,
                              before  |-> discovered_apis_file,
                              remote  |-> directory,
                              fetched |-> r.fetched,
                              result  |-> r.result])
  /\ UNCHANGED <<description, resources, children_to_insert, pc, run, normalized,
                 updated, initial_size, attempts, last_insert, previous,
                 resource_path, result, method_call, directory, override_call>>

\* the directory service publishes another document
Publish ==
  /\ pc = "discover"
  /\ \E d \in Documents \ {directory} : directory' = d
  /\ UNCHANGED <<description, resources, children_to_insert, pc, run, normalized,
                 updated, initial_size, attempts, last_insert, previous,
                 resource_path, result, method_call, discovered_apis_file, ensured,
                 override_call>>

NextDiscovery ==
  \/ EnsureDiscoveredApis
  \/ Publish

SpecDiscovery == InitDiscovery /\ [][NextDiscovery]_vars

\* ------------------------------------------------- the service override
\* service names given to build_parent_resources
OverrideServices == {<<"storage">>, <<"sqladmin">>, <<"bigquery">>, <<"container">>}

\* resource names given to build_parent_resources
OverrideResourceNames ==
  {<<"buckets">>, <<"objects">>, <<"folders">>, <<"managedFolders">>, <<"projects">>,
   <<"objectAccessControls">>, <<"channels">>}

\* segments left of a template: abbreviations, plain names, and a name that
\* only holds the abbreviations' letters
OverrideSegments ==
  {<<"b">>, <<"o">>, <<"projects">>, <<"buckets">>, <<"acl">>, <<"o", "b">>}

\* the sequences of at most n elements of set
RECURSIVE SeqsUpTo(_, _)
SeqsUpTo(set, n) ==
  IF n = 0 THEN {<<>>}
  ELSE LET shorter == SeqsUpTo(set, n - 1)
       IN shorter \cup {Append(sq, x) : sq \in {t \in shorter : Len(t) = n - 1}, x \in set}

\* the arguments with which build_parent_resources reaches its final match
InitOverride ==
  /\ description = [id |-> <<>>, name |-> <<>>, resources |-> <<>>]
  /\ resources = <<>>
  /\ children_to_insert = <<>>
  /\ pc = "override"
  /\ run = 0
  /\ normalized = <<>>
  /\ updated = <<>>
  /\ initial_size = 0
  /\ attempts = 0
  /\ last_insert = None
  /\ previous = None
  /\ resource_path = None
  /\ result = None
  /\ method_call = None
  /\ discovered_apis_file = None
  /\ directory = [keys |-> SortedKeys, items |-> 1]
  /\ ensured = None
  /\ \E service_name \in OverrideServices, resource_name \in OverrideResourceNames,
        segments \in SeqsUpTo(OverrideSegments, MaxSegments) :
       override_call = Some([service_name  |-> service_name,
                             resource_name |-> resource_name,
                             segments      |-> segments,
                             returned      |-> None])

\* update.rs:504-509, the match on service_name that ends build_parent_resources
TransformParents ==
  /\ pc = "override"
  /\ override_call # None
  /\ override_call[1].returned = None
  /\ override_call' =
       Some([override_call[1] EXCEPT !.returned =
               Some(apply_flavor(override_call[1].service_name,
                                 override_call[1].resource_name,
                                 override_call[1].segments))])
  /\ UNCHANGED <<description, resources, children_to_insert, pc, run, normalized,
                 updated, initial_size, attempts, last_insert, previous,
                 resource_path, result, method_call, discovered_apis_file,
                 directory, ensured>>

NextOverride == TransformParents

SpecOverride == InitOverride /\ [][NextOverride]_vars

\* --------------------------------------------------------------- claims
\* t is a suffix of s that starts at position 0 or right after a '.'
DotSuffix(s, t) ==
  /\ ends_with(s, t)
  /\ (Len(s) = Len(t) \/ s[Len(s) - Len(t)] = ".")

\* the last find_resource returned the resource at position p
Returned(p) == result # None /\ result[1] = [kind |-> "Ok", ref |-> p]

\* C1: find_resource only returns a resource whose canonical path has the
\* requested path as a dot-delimited suffix (the match starts at position 0
\* or immediately after a '.').
C1_DotDelimitedMatch ==
  \A p \in Positions(resources) :
    Returned(p) => DotSuffix(node_at(resources, p).path[1], resource_path[1])

\* failed graft attempts of the current run
Retries == attempts - (initial_size - Len(children_to_insert))

\* C2: the reassembly loop retries at most (initial worklist size)^2 times
\* before it stops.
C2_BoundedRetries == Retries <= initial_size * initial_size

\* C3: a second rebuild_hierarchy run on the output of the first returns an
\* identical tree.
C3_Idempotent ==
  (pc = "ready" /\ previous # None) => resources = previous[1]

\* the template PREFIX/projects/{projectsId}/datasets
DatasetsTemplate(prefix) ==
  Url(prefix \o << <<"projects">>, Ph("projectsId"), <<"datasets">> >>)

\* the top-level entries i of the forest phase 1 received, on bigquery:v2, that
\* are a resource `datasets` whose only method is `list` with the template t
DatasetsScenario(t) ==
  {i \in DOMAIN normalized :
     /\ run = 1
     /\ description.id = <<"bigquery", ":", "v2">>
     /\ normalized[i].name = <<"datasets">>
     /\ Len(normalized[i].methods) = 1
     /\ normalized[i].methods[1].name = <<"list">>
     /\ normalized[i].methods[1].flat_path = t}

\* phase 1 left entry i with path bigquery.projects.datasets and its method
\* with id bigquery.projects.datasets.list
DatasetsRebuilt(i) ==
  /\ updated[i].path = Some(Dotted(<<"bigquery", "projects", "datasets">>))
  /\ updated[i].methods[1].id = Dotted(<<"bigquery", "projects", "datasets", "list">>)

\* the finished tree holds a node of path bigquery.projects.datasets, directly
\* under the node bigquery.projects, with a method bigquery.projects.datasets.list
DatasetsPlaced ==
  \E p \in Positions(resources) :
    /\ Len(p) > 1
    /\ node_at(resources, pop(p)).path = Some(Dotted(<<"bigquery", "projects">>))
    /\ node_at(resources, p).path = Some(Dotted(<<"bigquery", "projects", "datasets">>))
    /\ \E k \in DOMAIN node_at(resources, p).methods :
         node_at(resources, p).methods[k].id =
           Dotted(<<"bigquery", "projects", "datasets", "list">>)

\* C4 (as stated): on bigquery:v2 the resource `datasets` whose only method
\* `list` has the template v1/projects/{projectsId}/datasets gets the path
\* bigquery.projects.datasets and the method id bigquery.projects.datasets.list.
C4_DatasetsV1 ==
  \A i \in DatasetsScenario(DatasetsTemplate(<< <<"v1">> >>)) : DatasetsRebuilt(i)

\* C4 (amended): the same with the template v2/projects/{projectsId}/datasets,
\* whose version segment is the service's own version; and once the rebuild has
\* returned, the node sits under bigquery.projects in the tree.
C4_DatasetsV2 ==
  \A i \in DatasetsScenario(DatasetsTemplate(<< <<"v2">> >>)) :
    /\ DatasetsRebuilt(i)
    /\ (pc = "ready" => DatasetsPlaced)

C4_Witness ==
  /\ DatasetsScenario(DatasetsTemplate(<< <<"v2">> >>)) # {}
  /\ pc = "ready"
  /\ DatasetsPlaced


\* the children of a node, none when the field is None
ChildrenOf(node) == IF node.resources = None THEN <<>> ELSE node.resources[1]

MethodSet(node) == {node.methods[k] : k \in DOMAIN node.methods}

\* the nodes of the forest given to the last insert_child_resource that the
\* call grafted under: their path is the child's parent path and they changed
GraftTargets ==
  IF last_insert = None THEN {}
  ELSE {p \in Positions(last_insert[1].forest) :
          /\ node_at(last_insert[1].forest, p).path = last_insert[1].child.parent_path
          /\ node_at(resources, p) # node_at(last_insert[1].forest, p)}

\* the children of the node at p, before the call, that have the child's path
SamePathChildren(p) ==
  {j \in DOMAIN ChildrenOf(node_at(last_insert[1].forest, p)) :
     ChildrenOf(node_at(last_insert[1].forest, p))[j].path = last_insert[1].child.path}

\* C5: a graft onto a parent that already has a child of the grafted
\* resource's canonical path leaves the number of children unchanged, and the
\* first such child then holds its previous methods and the grafted ones; no
\* other child changes.
C5_MergeKeepsMethods ==
  \A p \in GraftTargets :
    SamePathChildren(p) # {} =>
      LET before == ChildrenOf(node_at(last_insert[1].forest, p))
          after == ChildrenOf(node_at(resources, p))
          e == CHOOSE j \in SamePathChildren(p) : \A k \in SamePathChildren(p) : j <= k
      IN /\ Len(after) = Len(before)
         /\ MethodSet(after[e]) = MethodSet(before[e]) \cup MethodSet(last_insert[1].child)
         /\ \A j \in DOMAIN before : j # e => after[j] = before[j]

C5_Witness ==
  \E p \in GraftTargets :
    /\ SamePathChildren(p) # {}
    /\ last_insert[1].child.methods # <<>>
    /\ \E j \in SamePathChildren(p) :
         ChildrenOf(node_at(last_insert[1].forest, p))[j].methods # <<>>


RECURSIVE raw_at(_, _)
\* the entry of the discovery document at a position
raw_at(raws, pos) ==
  IF Len(pos) = 1 THEN raws[pos[1]]
  ELSE raw_at(raws[pos[1]].resources, Tail(pos))

\* C6: phase 1 leaves every method with original_id set to the id it had just
\* before (on the first run, the id declared in the discovery document) and
\* with id = <new canonical path of its resource>.<method name>.
C6_OriginalIdKept ==
  run >= 1 =>
    \A p \in Positions(normalized) :
      LET old == node_at(normalized, p)
          new == node_at(updated, p)
      IN /\ Len(new.methods) = Len(old.methods)
         /\ \A k \in DOMAIN old.methods :
              /\ new.methods[k].original_id = Some(old.methods[k].id)
              /\ new.methods[k].id = dot(new.path[1], new.methods[k].name)
              /\ run = 1 => new.methods[k].original_id =
                              Some(raw_at(description.resources, p).methods[k].id)

C6_Witness ==
  /\ run >= 1
  /\ \E p \in Positions(normalized) : \E k \in DOMAIN node_at(normalized, p).methods :
       /\ node_at(updated, p).methods[k].id # node_at(normalized, p).methods[k].id
       /\ node_at(updated, p).methods[k].original_id =
            Some(node_at(normalized, p).methods[k].id)

\* the canonical path of the node at p ends with the string q
PathEndsWith(p, q) ==
  /\ node_at(resources, p).path # None
  /\ ends_with(node_at(resources, p).path[1], q)

\* the resources whose canonical path ends with the path last asked for
Matching == {p \in Positions(resources) : PathEndsWith(p, resource_path[1])}

\* C7: when no resource's canonical path ends with the requested path,
\* find_resource returns the ResourceNotFound error, which names that path.
C7_NotFound ==
  (result # None /\ Matching = {}) =>
     /\ result[1].kind = "ResourceNotFound"
     /\ result[1].path = resource_path[1]

C7_Witness ==
  /\ result # None
  /\ Matching = {}
  /\ resources # <<>>
  /\ result[1].kind = "ResourceNotFound"

\* C8 (as stated): find_resource applied to the full canonical path of a
\* resource returns that resource.
C8_Reflexive ==
  result # None =>
    \A p \in Positions(resources) :
      node_at(resources, p).path = resource_path => Returned(p)

\* C8 (amended): find_resource applied to the full canonical path of a resource
\* returns that resource when no other resource's canonical path ends with it.
C8_ReflexiveWhenUnique ==
  result # None =>
    \A p \in Positions(resources) :
      (node_at(resources, p).path = resource_path /\ Matching = {p}) => Returned(p)

C8_Witness ==
  /\ result # None
  /\ \E p \in Positions(resources) :
       /\ Len(p) > 1
       /\ node_at(resources, p).path = resource_path
       /\ Matching = {p}
       /\ Returned(p)

\* the resources whose canonical path has the requested path as a suffix that
\* starts at a label boundary
DotMatching ==
  {p \in Positions(resources) :
     /\ node_at(resources, p).path # None
     /\ DotSuffix(node_at(resources, p).path[1], resource_path[1])}

\* C9: a resource with ancestors that is the only one whose canonical path has
\* the requested path as a dot-aligned suffix is the one find_resource returns.
C9_UniqueDotSuffix ==
  result # None =>
    \A p \in Positions(resources) :
      (node_at(resources, p).parent_path # None /\ DotMatching = {p}) => Returned(p)

\* C10: whenever at least one resource matched, find_resource returns one of
\* the matching resources, whatever the strategy of the service; it never
\* fails with SelectionFailed.
C10_SelectsCandidate ==
  (result # None /\ Matching # {}) =>
     /\ result[1].kind = "Ok"
     /\ result[1].ref \in Matching

\* several candidates on a service with a strategy, none of them preferred
C10_Witness ==
  /\ result # None
  /\ Cardinality(Matching) >= 2
  /\ description.id = <<"spanner", ":", "v1">>
  /\ \A p \in Matching :
       ~ contains(node_at(resources, p).path[1], <<"instances", ".", "operations">>)
  /\ result[1].kind = "Ok"
  /\ result[1].ref \in Matching

\* position p comes before position q in the depth-first traversal that visits
\* a parent before its children and siblings in stored order
Before(p, q) ==
  /\ p # q
  /\ \/ Len(p) < Len(q) /\ SubSeq(q, 1, Len(p)) = p
     \/ \E k \in 1..Len(p) :
          /\ k <= Len(q)
          /\ SubSeq(p, 1, k - 1) = SubSeq(q, 1, k - 1)
          /\ p[k] < q[k]

\* the services for which select_resource has no strategy of their own
NoStrategy ==
  description.id \notin {<<"container", ":", "v1">>, <<"dataflow", ":", "v1b3">>,
                         <<"spanner", ":", "v1">>}

\* C11: on a service without a strategy, when two or more resources have a
\* canonical path that ends with the requested path, find_resource succeeds
\* and returns the one that comes last in the depth-first traversal.
C11_DefaultLast ==
  (result # None /\ NoStrategy /\ Cardinality(Matching) >= 2) =>
     \E p \in Matching :
       /\ Returned(p)
       /\ \A q \in Matching : q # p => Before(q, p)

C11_Witness ==
  /\ result # None
  /\ NoStrategy
  /\ Cardinality(Matching) >= 2
  /\ \E p \in Matching : Returned(p) /\ Len(p) > 1
  /\ \E p, q \in Matching : Len(p) # Len(q)

\* the path asked for is `clusters` on container:v1 and the tree holds both
\* container.projects.locations.clusters and container.projects.zones.clusters
ClustersScenario ==
  /\ result # None
  /\ description.id = <<"container", ":", "v1">>
  /\ resource_path = Some(<<"clusters">>)
  /\ \E p \in Positions(resources) : node_at(resources, p).path =
        Some(Dotted(<<"container", "projects", "locations", "clusters">>))
  /\ \E p \in Positions(resources) : node_at(resources, p).path =
        Some(<<"container", ".", "projects", ".">> \o Zones \o <<".", "clusters">>)

\* C12: on container:v1, with both clusters resources in the tree,
\* find_resource(tree, "clusters") returns the resource
\* container.projects.locations.clusters, in either order of the branches.
C12_RegionalClusters ==
  ClustersScenario =>
    /\ result[1].kind = "Ok"
    /\ node_at(resources, result[1].ref).path =
         Some(Dotted(<<"container", "projects", "locations", "clusters">>))

\* the zonal branch is stored, and so collected, before the regional one
C12_Witness ==
  /\ ClustersScenario
  /\ result[1].kind = "Ok"
  /\ \E p \in Positions(resources) :
       /\ node_at(resources, p).path =
            Some(<<"container", ".", "projects", ".">> \o Zones \o <<".", "clusters">>)
       /\ Before(p, result[1].ref)
  /\ node_at(resources, result[1].ref).path =
       Some(Dotted(<<"container", "projects", "locations", "clusters">>))

\* the methods of the tree, each named by the position of its resource and
\* its index among that resource's methods
MethodSlots ==
  UNION {{<<p, k>> : k \in DOMAIN node_at(resources, p).methods}
         : p \in Positions(resources)}

\* C13: once rebuild_hierarchy has returned, no two methods of the tree have
\* the same id.
C13_UniqueMethodIds ==
  (pc = "ready" /\ run >= 1) =>
    \A a, b \in MethodSlots :
      a # b => node_at(resources, a[1]).methods[a[2]].id #
               node_at(resources, b[1]).methods[b[2]].id

\* in the forest, every child's parent_path is the path of the node it is under
ParentLinked(forest) ==
  \A p \in Positions(forest) :
    Len(p) > 1 => node_at(forest, p).parent_path = node_at(forest, pop(p)).path

\* C14: in the Normalizer's output, in phase 1's output, in the forest during
\* and after reassembly and in every resource still waiting to be grafted,
\* each child's parent_path equals the path of the resource that holds it.
C14_ChildParentPath ==
  /\ ParentLinked(resources)
  /\ ParentLinked(updated)
  /\ ParentLinked(children_to_insert)

\* a graft has just pushed a resource under the node of its parent path
C14_Witness ==
  /\ last_insert # None
  /\ last_insert[1].ok
  /\ \E p \in Positions(resources) \ Positions(last_insert[1].forest) :
       /\ Len(p) > 1
       /\ node_at(resources, p) = last_insert[1].child
       /\ node_at(resources, p).parent_path = node_at(resources, pop(p)).path
  /\ \E p \in Positions(normalized) : Len(p) > 1

\* C15: phase 1 of the first rebuild of a document has one possible outcome:
\* the forest it left is the only one the call can produce from the forest it
\* received, whatever order the distinct templates of a resource come in.
C15_Deterministic ==
  run = 1 =>
    \A forest \in update_resource_paths(description.id, normalized) :
      forest = updated

\* C16: find_method returns a method of the resource whose name is exactly the
\* name asked for, and the MethodNotFound error when the resource has no
\* method of exactly that name.
C16_ExactMethodName ==
  method_call # None =>
    LET node == node_at(resources, method_call[1].resource)
        n == method_call[1].method_name
        r == method_call[1].result
    IN IF \E k \in DOMAIN node.methods : node.methods[k].name = n
       THEN /\ r.kind = "Ok"
            /\ r.method \in MethodSet(node)
            /\ r.method.name = n
       ELSE /\ r.kind = "MethodNotFound"
            /\ r.method = n

\* the name asked for is the end of the name of one of the methods and is the
\* name of none: the call fails
C16_Witness ==
  /\ method_call # None
  /\ method_call[1].result.kind = "MethodNotFound"
  /\ \E k \in DOMAIN node_at(resources, method_call[1].resource).methods :
       ends_with(node_at(resources, method_call[1].resource).methods[k].name,
                 method_call[1].method_name)

\* a dotted id without its last segment and the '.' before it
DropLastSegment(id) ==
  LET k == CHOOSE i \in DOMAIN id :
             id[i] = "." /\ \A j \in (i + 1)..Len(id) : id[j] # "."
  IN SubSeq(id, 1, k - 1)

\* what the Normalizer is given as the parent of the entry at position p: the
\* path it computed for the enclosing resource, none at the top level
ParentOf(p) ==
  IF Len(p) = 1 THEN None ELSE node_at(resources, pop(p)).path

C18_ReplaceForcesFetch ==
  ensured # None =>
    LET e == ensured[1]
    IN /\ e.replace => e.fetched
       /\ (e.replace /\ e.result.kind = "Ok") =>
            /\ discovered_apis_file = Some(sort_json(e.remote))
            /\ e.result.items = e.remote.items
       /\ ~ e.replace => (e.fetched <=> e.before = None)
       /\ (~ e.replace /\ e.before # None) =>
            /\ discovered_apis_file = e.before
            /\ e.result = [kind |-> "Ok", items |-> e.before[1].items]

\* a segment of a template that stands for a parameter
IsPlaceholder(seg) == seg # <<>> /\ (seg[1] = "{" \/ seg[Len(seg)] = "}")

\* the tokenization of a template: split on '/', without the placeholder
\* segments, without the last of those that remain, without the segments equal
\* to the version
Tokens(template, version) ==
  LET literal(seg) == ~ IsPlaceholder(seg)
      named(seg) == seg # version
      literals == SelectSeq(split(template, "/"), literal)
  IN SelectSeq(SubSeq(literals, 1, Len(literals) - 1), named)

\* a template that counts for the inference: no ':', and on compute no
\* `aggregated` segment
ValidTemplate(template) ==
  /\ \A i \in DOMAIN template : template[i] # ":"
  /\ description.name = <<"compute">> =>
       \A i \in DOMAIN split(template, "/") :
         split(template, "/")[i] # <<"aggregated">>

\* the version token of the service
VersionToken == SubSeq(description.id, Len(description.name) + 2, Len(description.id))

\* the ancestor chains a resource's valid templates give, without those that
\* end with the name of the resource
Usable(resource) ==
  {c \in {Tokens(resource.methods[k].flat_path, VersionToken) :
            k \in {j \in DOMAIN resource.methods :
                     ValidTemplate(resource.methods[j].flat_path)}} :
     c = <<>> \/ c[Len(c)] # resource.name}

\* the parent path an ancestor chain stands for
ChainPath(chain) ==
  IF chain = <<>> THEN None ELSE Some(join(<<description.name>> \o chain, "."))

\* the top-level entry i is `rowAccessPolicies` with a method whose template is
\* projects/{projectsId}/datasets/{datasetsId}/tables/{tablesId}/rowAccessPolicies
RowAccessPoliciesScenario(i) ==
  /\ normalized[i].name = <<"rowAccessPolicies">>
  /\ \E k \in DOMAIN normalized[i].methods :
       normalized[i].methods[k].flat_path = RowAccessPoliciesUrl(<<>>)

\* C19: after phase 1 of the first run on bigquery:v2 (no segment override),
\* the parent path of a top-level-declared resource with a usable template is
\* the chain of one of its valid templates whose tokenization does not end
\* with the resource's own name (the one met first; the only one when they all
\* agree); the rowAccessPolicies template gives [projects, datasets, tables].
C19_InferredChain ==
  (run = 1 /\ description.id = <<"bigquery", ":", "v2">>) =>
    \A i \in DOMAIN updated :
      /\ Usable(normalized[i]) # {} =>
           \E c \in Usable(normalized[i]) : updated[i].parent_path = ChainPath(c)
      /\ RowAccessPoliciesScenario(i) =>
           updated[i].parent_path =
             Some(Dotted(<<"bigquery", "projects", "datasets", "tables">>))

C19_Witness ==
  /\ run = 1
  /\ description.id = <<"bigquery", ":", "v2">>
  /\ \E i \in DOMAIN updated :
       /\ RowAccessPoliciesScenario(i)
       /\ Cardinality(Usable(normalized[i])) = 1
       /\ updated[i].parent_path =
            Some(Dotted(<<"bigquery", "projects", "datasets", "tables">>))
       /\ updated[i].path =
            Some(Dotted(<<"bigquery", "projects", "datasets", "tables",
                          "rowAccessPolicies">>))

\* the top-level entries of the forest the first phase 1 received that have no
\* usable template: no method, or only templates that are invalid or whose
\* tokenization ends with the name of the resource
NoUsableTemplate ==
  {i \in DOMAIN normalized : run = 1 /\ Usable(normalized[i]) = {}}

\* phase 1 left entry i without parent and with the path <service>.<name>,
\* and from the split on the resource is in the top-level forest
StaysTopLevel(i) ==
  /\ updated[i].parent_path = None
  /\ updated[i].path = Some(dot(description.name, normalized[i].name))
  /\ \E j \in DOMAIN resources :
       /\ resources[j].name = normalized[i].name
       /\ resources[j].path = updated[i].path
       /\ resources[j].parent_path = None

\* C20 (as stated): on every rebuilt service, a top-level-declared resource
\* without a usable template has, after phase 1, no parent path and the path
\* <service>.<name>, and stays in the top-level forest.
C20_NoTemplateTopLevel ==
  \A i \in NoUsableTemplate : StaysTopLevel(i)

\* C20 (amended): the same on bigquery:v2 and sqladmin:v1, whose override
\* leaves an empty chain empty.
C20_NoTemplateTopLevelNoFixedChain ==
  description.id \in {<<"bigquery", ":", "v2">>, <<"sqladmin", ":", "v1">>} =>
    \A i \in NoUsableTemplate : StaysTopLevel(i)

\* a resource whose only template is self-referencing, and one whose only
\* template is invalid, after the rebuild has returned
C20_Witness ==
  /\ pc = "ready"
  /\ \E i \in NoUsableTemplate :
       /\ normalized[i].methods # <<>>
       /\ StaysTopLevel(i)
       /\ \/ /\ description.id = <<"bigquery", ":", "v2">>
             /\ \E k \in DOMAIN normalized[i].methods :
                  ValidTemplate(normalized[i].methods[k].flat_path)
          \/ /\ description.id = <<"sqladmin", ":", "v1">>
             /\ \A k \in DOMAIN normalized[i].methods :
                  ~ ValidTemplate(normalized[i].methods[k].flat_path)

\* the finished tree holds, under a node of path parent, a child of the given
\* name and path whose parent_path is parent
ChildUnder(parent, name, path) ==
  \E q \in Positions(resources) :
    /\ Len(q) > 1
    /\ node_at(resources, pop(q)).path = parent
    /\ node_at(resources, q).name = name
    /\ node_at(resources, q).path = path
    /\ node_at(resources, q).parent_path = parent

\* C21: once the first rebuild has returned, every resource declared as a
\* sub-resource of R in the document is a child of a node that carries the
\* path phase 1 gave R, with that path as its parent_path.
C21_NestingKept ==
  (pc = "ready" /\ run = 1) =>
    \A p \in Positions(updated) :
      Len(p) > 1 =>
        ChildUnder(node_at(updated, pop(p)).path, node_at(updated, p).name,
                   node_at(updated, p).path)

\* the ids the methods of a forest had before phase 1 rewrote them
OriginalIds(forest) ==
  UNION {{node_at(forest, p).methods[k].original_id :
            k \in DOMAIN node_at(forest, p).methods} : p \in Positions(forest)}

\* the ids of the methods of a forest
MethodIds(forest) ==
  UNION {{node_at(forest, p).methods[k].id :
            k \in DOMAIN node_at(forest, p).methods} : p \in Positions(forest)}

\* C22: once the first rebuild has returned, the original_ids of the methods
\* of the tree are exactly the ids of the methods of the forest it was given.
C22_NoMethodLost ==
  (pc = "ready" /\ run = 1) =>
    OriginalIds(resources) = {Some(id) : id \in MethodIds(normalized)}

\* every resource that phase 1 left with a parent path at the top level has
\* that path carried by some resource of phase 1's forest, at any depth
AllParentsPresent ==
  \A i \in DOMAIN updated :
    updated[i].parent_path # None =>
      \E p \in Positions(updated) : node_at(updated, p).path = updated[i].parent_path

\* C23: when every pending resource's parent path is the path of a resource
\* of phase 1's forest, the reassembly loop of the first run makes at most
\* (initial worklist size)^2 graft attempts.
C23_TerminatesWhenParentsPresent ==
  (run = 1 /\ AllParentsPresent) => attempts <= initial_size * initial_size

\* a resource without its sub-resources
Shallow(resource) == [resource EXCEPT !.resources = None]

\* the entries of phase 1's forest that have no parent path, in order
Parentless ==
  LET parentless(r) == r.parent_path = None
  IN SelectSeq(updated, parentless)

\* C24: once the first rebuild has returned, the top-level forest is made of
\* the entries phase 1 left without parent path, in their order, and every
\* resource to which phase 1 gave a parent path, at any depth, has a node of
\* its own path directly under a node whose path is that parent path.
C24_Placement ==
  (pc = "ready" /\ run = 1) =>
    /\ [j \in DOMAIN resources |-> Shallow(resources[j])] =
         [j \in DOMAIN Parentless |-> Shallow(Parentless[j])]
    /\ \A p \in Positions(updated) :
         node_at(updated, p).parent_path # None =>
           \E q \in Positions(resources) :
             /\ Len(q) > 1
             /\ node_at(resources, pop(q)).path = node_at(updated, p).parent_path
             /\ node_at(resources, q).path = node_at(updated, p).path

\* C25: a failed graft attempt puts the popped resource back at the front of
\* the worklist, the end opposite to the one items are popped from, and
\* leaves the other entries as they were, in their order: nothing is dropped
\* or duplicated, and every other pending resource is popped before it.
C25_RequeueOrder ==
  [][(pc = "insert" /\ attempts' = attempts + 1 /\ ~ last_insert'[1].ok) =>
       /\ children_to_insert' =
            <<children_to_insert[Len(children_to_insert)]>> \o pop(children_to_insert)
       /\ Len(children_to_insert') = Len(children_to_insert)
       /\ children_to_insert'[1] = last_insert'[1].child
       /\ \A k \in 1 .. Len(children_to_insert) - 1 :
            children_to_insert'[k + 1] = children_to_insert[k]]_vars

\* an attempt has just failed while another resource was pending
C25_Witness ==
  /\ pc = "insert"
  /\ last_insert # None
  /\ ~ last_insert[1].ok
  /\ Len(children_to_insert) >= 2
  /\ children_to_insert[1] = last_insert[1].child
  /\ children_to_insert[Len(children_to_insert)] # last_insert[1].child

\* the service name of the extracted document
ServiceName == split(description.id, ":")[1]

\* the path a resource should have, from its parent path and its name
CanonicalPath(resource) ==
  IF resource.parent_path = None
  THEN Some(ServiceName \o <<".">> \o resource.name)
  ELSE Some(resource.parent_path[1] \o <<".">> \o resource.name)

\* every resource of the forest has its canonical path, and every method
\* the id made of its resource's path and its own name
CanonicalForest(forest) ==
  \A p \in Positions(forest) :
    LET resource == node_at(forest, p)
    IN /\ resource.path = CanonicalPath(resource)
       /\ \A i \in DOMAIN resource.methods :
            resource.methods[i].id =
              resource.path[1] \o <<".">> \o resource.methods[i].name

\* C26: after phase 1 and in the rebuilt tree, every resource's path is
\* <parent path>.<name>, or <service>.<name> without a parent path, and
\* every method's id is <path of its resource>.<method name>.
C26_CanonicalPaths ==
  run >= 1 =>
    /\ CanonicalForest(updated)
    /\ CanonicalForest(children_to_insert)
    /\ CanonicalForest(resources)

\* a rebuilt tree with a top-level resource and a nested one that has methods
C26_Witness ==
  /\ pc = "ready"
  /\ run >= 1
  /\ \E p \in Positions(resources) :
       /\ Len(p) > 1
       /\ node_at(resources, p).parent_path # None
       /\ node_at(resources, p).methods # <<>>
       /\ node_at(resources, <<p[1]>>).parent_path = None

\* the positions of the forest whose node has the given path
NodesWithPath(forest, path) ==
  {p \in Positions(forest) : node_at(forest, p).path = path}

\* C27: an attempt to graft succeeds exactly when some node of the forest,
\* at any depth, has the child's parent path as its path; the pruned search
\* finds what a full search would find.
C27_PruningIsExact ==
  last_insert # None =>
    (last_insert[1].ok <=>
       NodesWithPath(last_insert[1].forest, last_insert[1].child.parent_path) # {})

\* the last attempt succeeded under a parent that is found only below the top level
C27_Witness ==
  /\ last_insert # None
  /\ last_insert[1].ok
  /\ NodesWithPath(last_insert[1].forest, last_insert[1].child.parent_path) # {}
  /\ \A p \in NodesWithPath(last_insert[1].forest, last_insert[1].child.parent_path) :
       Len(p) > 1

RECURSIVE ReplaceAt(_, _, _)
\* the forest with the node at position q replaced by node, all else as it was
ReplaceAt(forest, q, node) ==
  IF Len(q) = 1 THEN [forest EXCEPT ![q[1]] = node]
  ELSE [forest EXCEPT ![q[1]].resources = Some(ReplaceAt(@[1], Tail(q), node))]

\* the sub-resources of a node, none counted as an empty list
SubResources(node) == IF node.resources = None THEN <<>> ELSE node.resources[1]

\* the node after it gained the child as its last sub-resource
GainsChild(node, child) ==
  [node EXCEPT !.resources = Some(Append(SubResources(node), child))]

\* the nodes obtained when one sub-resource of the node, of the child's path,
\* gains the child's methods after its own
ChildGainsMethods(node, child) ==
  {[node EXCEPT !.resources =
      Some([SubResources(node) EXCEPT ![k].methods = @ \o child.methods])] :
     k \in {j \in DOMAIN SubResources(node) : SubResources(node)[j].path = child.path}}

\* C28: a failed attempt leaves the forest exactly as it was; a successful
\* one changes one node only, the one whose path is the child's parent
\* path: it gains the child as a sub-resource, or one of its sub-resources
\* gains the child's methods; every other node is as before.
C28_Frame ==
  last_insert # None =>
    LET before == last_insert[1].forest
        child == last_insert[1].child
    IN IF ~ last_insert[1].ok THEN resources = before
       ELSE \E q \in NodesWithPath(before, child.parent_path) :
              \/ resources = ReplaceAt(before, q, GainsChild(node_at(before, q), child))
              \/ \E node \in ChildGainsMethods(node_at(before, q), child) :
                    resources = ReplaceAt(before, q, node)

\* the last attempt merged methods into a sub-resource of the same path
C28_Witness ==
  /\ last_insert # None
  /\ last_insert[1].ok
  /\ last_insert[1].child.methods # <<>>
  /\ \E q \in NodesWithPath(last_insert[1].forest, last_insert[1].child.parent_path) :
       /\ \E node \in ChildGainsMethods(node_at(last_insert[1].forest, q),
                                          last_insert[1].child) :
            resources = ReplaceAt(last_insert[1].forest, q, node)
       /\ resources # ReplaceAt(last_insert[1].forest, q,
                                GainsChild(node_at(last_insert[1].forest, q),
                                           last_insert[1].child))

\* the path asked for ends with one of the names served by regional endpoints
RegionalHint ==
  \E hint \in {"templates", "jobs", "debug", "messages", "workItems"} :
    ends_with(resource_path[1], <<hint>>)

\* the candidates the dataflow strategy prefers for the path asked for
Preferred ==
  {p \in Matching :
     contains(node_at(resources, p).path[1],
              IF RegionalHint THEN <<"locations">>
              ELSE <<"locations", ".", "snapshots">>)}

\* C29: on dataflow:v1b3, when two or more resources match, a path that ends
\* with templates, jobs, debug, messages or workItems gets the first
\* candidate of the traversal whose path contains `locations`, any other
\* path gets the first candidate whose path contains `locations.snapshots`,
\* and when no candidate is preferred the last candidate is returned.
C29_DataflowStrategy ==
  (result # None /\ description.id = <<"dataflow", ":", "v1b3">>
     /\ Cardinality(Matching) >= 2) =>
    \E p \in Matching :
      /\ Returned(p)
      /\ IF Preferred # {}
         THEN p \in Preferred /\ \A q \in Preferred : q # p => Before(p, q)
         ELSE \A q \in Matching : q # p => Before(q, p)

\* a path without hint, three candidates, and the one returned is neither
\* the first nor the last of them
C29_Witness ==
  /\ result # None
  /\ description.id = <<"dataflow", ":", "v1b3">>
  /\ ~ RegionalHint
  /\ Cardinality(Matching) >= 3
  /\ \E p \in Preferred :
       /\ Returned(p)
       /\ \E q \in Matching : Before(p, q)
       /\ \E q \in Matching : Before(q, p)

\* a segment with the storage abbreviations written out
Unabbreviated(segment) ==
  IF segment = <<"b">> THEN <<"buckets">>
  ELSE IF segment = <<"o">> THEN <<"objects">>
  ELSE segment

\* C30: for storage, `buckets` gets the chain [projects]; `objects`,
\* `folders` and `managedFolders` get [projects, buckets], whatever the
\* segments are; `projects` keeps its segments; every other resource gets
\* `projects` followed by its segments, `b` written as `buckets` and `o` as
\* `objects`; a service without an override gets its segments back unchanged.
C30_StorageOverride ==
  (override_call # None /\ override_call[1].returned # None) =>
    LET call == override_call[1]
        returned == call.returned[1]
    IN /\ call.service_name = <<"storage">> =>
            IF call.resource_name = <<"buckets">>
            THEN returned = << <<"projects">> >>
            ELSE IF call.resource_name \in
                      {<<"objects">>, <<"folders">>, <<"managedFolders">>}
            THEN returned = << <<"projects">>, <<"buckets">> >>
            ELSE IF call.resource_name = <<"projects">>
            THEN returned = call.segments
            ELSE /\ Len(returned) = Len(call.segments) + 1
                 /\ returned[1] = <<"projects">>
                 /\ \A k \in DOMAIN call.segments :
                      returned[k + 1] = Unabbreviated(call.segments[k])
       /\ call.service_name \notin {<<"storage">>, <<"compute">>, <<"sqladmin">>} =>
            returned = call.segments

\* objectAccessControls of storage, reached through b and o
C30_Witness ==
  /\ override_call # None
  /\ override_call[1].service_name = <<"storage">>
  /\ override_call[1].resource_name = <<"objectAccessControls">>
  /\ override_call[1].segments = << <<"b">>, <<"o">> >>
  /\ override_call[1].returned =
       Some(<< <<"projects">>, <<"buckets">>, <<"objects">> >>)

====
